---- MODULE Spec2Model ----
(***************************************************************************)
(* State machine of the MemoryGame component                               *)
(* (src/src/components/MemoryGame.tsx, src/src/types/game.ts).             *)
(*                                                                         *)
(* One action per event the component handles to completion: the start,    *)
(* reset and change-difficulty buttons, the difficulty select, a click on  *)
(* a card, the firing of a setTimeout commit and a tick of the setInterval *)
(* clock.  The completion useEffect runs after every render in which       *)
(* `cards` changed, so it is part of every action that sets `cards`.       *)
(***************************************************************************)
EXTENDS Integers, Sequences, FiniteSets, TLC

VARIABLES
    cards,          \* useState<CardType[]>            (line 69)
    flippedCards,   \* useState<number[]>              (line 70)
    stats,          \* useState<GameStats>             (lines 71-76)
    difficulty,     \* useState<Difficulty>            (line 77)
    gameStarted,    \* useState(false)                 (line 78)
    isClickable,    \* useState(true)                  (line 79)
    timeouts,       \* setTimeout callbacks not yet fired, in scheduling order
    stale,          \* history: how many of the pending timeouts (the oldest ones)
                    \*          were scheduled before the latest initializeGame
    scheduled,      \* history: number of timeouts scheduled so far
    lastOp          \* history: the event handled last

gameVars == <<cards, flippedCards, stats, difficulty, gameStarted, isClickable, timeouts>>
vars == <<cards, flippedCards, stats, difficulty, gameStarted, isClickable, timeouts,
          stale, scheduled, lastOp>>

(***************************************************************************)
(* Bounds of the model.                                                    *)
(***************************************************************************)
\* Spec: a second card is accepted only while scheduled < MaxCommits
MaxCommits == 2
\* SpecRun: a second card is accepted only while scheduled < MaxCommitsRun
MaxCommitsRun == 8
\* Pairs a player may turn over when playing the largest deck to completion.
MaxCommitsHard == 18
\* the clock ticks only while stats.timeElapsed < MaxTime
MaxTime == 1
\* the shuffle yields one of ShuffleCount permutations
ShuffleCount == 1
\* the player clicks cards up to ClickWindow positions past the first unmatched one
ClickWindow == 3

(***************************************************************************)
(* Program constants.                                                      *)
(***************************************************************************)
\* line 9: 18 entries, the entry at index 1 is repeated at index 13
CARD_EMOJIS ==
    << "gamepad", "dart", "die", "circus", "palette", "masks", "guitar", "trumpet",
       "violin", "piano", "mic", "headphones", "clapper", "dart", "confetti", "tada",
       "gift", "ribbon" >>

\* lines 11-15
DIFFICULTY_CONFIG ==
    [ easy   |-> [gridSize |-> 4, label |-> "Easy (4x4)"],
      medium |-> [gridSize |-> 6, label |-> "Medium (6x6)"],
      hard   |-> [gridSize |-> 8, label |-> "Hard (8x8)"] ]

\* types/game.ts line 15
Difficulty == {"easy", "medium", "hard"}

\* line 136
MATCH_DELAY == 600
\* line 147
MISMATCH_DELAY == 1200

(***************************************************************************)
(* Pure helpers.                                                           *)
(***************************************************************************)
Min(a, b) == IF a < b THEN a ELSE b

\* Array.prototype.slice(0, n): at most n elements, fewer when the array is shorter
Slice(s, n) == SubSeq(s, 1, Min(n, Len(s)))

\* One riffle of the two halves of s: a permutation of s.
Riffle(s) ==
    LET n == Len(s)
        h == (n + 1) \div 2
    IN  [i \in 1..n |-> IF i % 2 = 1 THEN s[(i + 1) \div 2] ELSE s[h + (i \div 2)]]

\* The k-th permutation the comparator-random sort may produce (line 88):
\* k + 1 riffles.  One riffle puts the two cards of a pair side by side.
RECURSIVE Shuffle(_, _)
Shuffle(k, s) == IF k = 0 THEN Riffle(s) ELSE Riffle(Shuffle(k - 1, s))

\* lines 82-94: the deck initializeGame builds for difficulty d under shuffle k
BuildDeck(d, k) ==
    LET config == DIFFICULTY_CONFIG[d]
        totalCards == (config.gridSize * config.gridSize) \div 2
        selectedEmojis == Slice(CARD_EMOJIS, totalCards)
        pairedEmojis == selectedEmojis \o selectedEmojis
        shuffled == Shuffle(k, pairedEmojis)
    IN  [i \in 1..Len(shuffled) |->
            [id |-> i - 1, emoji |-> shuffled[i], isFlipped |-> FALSE, isMatched |-> FALSE]]

\* cards.find(card => card.id === id)!  (line 122)
Find(cs, id) == cs[CHOOSE i \in DOMAIN cs : cs[i].id = id]

\* line 111
FlipCard(card) == [card EXCEPT !.isFlipped = TRUE]
\* line 130
MarkMatched(card) == [card EXCEPT !.isMatched = TRUE]
\* A flip-back that rebuilds the card face down and unmatched.
FlipBackClearing(card) == [card EXCEPT !.isFlipped = FALSE, !.isMatched = FALSE]
\* line 142
FlipBack(card) == [card EXCEPT !.isFlipped = FALSE]

\* A completion check that uses some() where the code uses every().
CompletionEffectSome(cs, st) ==
    IF Len(cs) > 0 /\ \E i \in DOMAIN cs : cs[i].isMatched
    THEN [st EXCEPT !.isGameComplete = TRUE]
    ELSE st

\* lines 172-177: the completion useEffect, run on the cards just rendered
CompletionEffect(cs, st) ==
    IF Len(cs) > 0 /\ \A i \in DOMAIN cs : cs[i].isMatched
    THEN [st EXCEPT !.isGameComplete = TRUE]
    ELSE st

\* lines 98-103
ZeroStats == [moves |-> 0, matches |-> 0, timeElapsed |-> 0, isGameComplete |-> FALSE]

(***************************************************************************)
(* Initial state: the component as mounted (lines 69-79).                  *)
(***************************************************************************)
Init ==
    /\ cards = << >>
    /\ flippedCards = << >>
    /\ stats = ZeroStats
    /\ difficulty = "easy"
    /\ gameStarted = FALSE
    /\ isClickable = TRUE
    /\ timeouts = << >>
    /\ stale = 0
    /\ scheduled = 0
    /\ lastOp = "mount"

\* An initializeGame without its setIsClickable(true).
initializeGameKeepingLock(k) ==
    LET shuffledCards == BuildDeck(difficulty, k)
    IN  /\ cards' = shuffledCards
        /\ flippedCards' = << >>
        /\ stats' = CompletionEffect(shuffledCards, ZeroStats)
        /\ stale' = Len(timeouts)
        /\ UNCHANGED <<difficulty, timeouts, scheduled, isClickable>>

(***************************************************************************)
(* initializeGame (lines 81-105).  Pending timeouts are left untouched:    *)
(* the code keeps no handle to them and never calls clearTimeout.          *)
(***************************************************************************)
initializeGame(k) ==
    LET shuffledCards == BuildDeck(difficulty, k)
    IN  /\ cards' = shuffledCards
        /\ flippedCards' = << >>
        /\ stats' = CompletionEffect(shuffledCards, ZeroStats)
        /\ isClickable' = TRUE
        /\ stale' = Len(timeouts)
        /\ UNCHANGED <<difficulty, timeouts, scheduled>>

\* lines 152-155, the Start Game button of the start screen (lines 216-219)
startGame ==
    /\ ~gameStarted
    /\ gameStarted' = TRUE
    /\ \E k \in 0..(ShuffleCount - 1) : initializeGame(k)
    /\ lastOp' = "start"

\* lines 157-159, the Reset Game button of the game screen (lines 281-284)
resetGame ==
    /\ gameStarted
    /\ \E k \in 0..(ShuffleCount - 1) : initializeGame(k)
    /\ UNCHANGED gameStarted
    /\ lastOp' = "reset"

\* line 285, the Change Difficulty button of the game screen
changeDifficulty ==
    /\ gameStarted
    /\ gameStarted' = FALSE
    /\ UNCHANGED <<cards, flippedCards, stats, difficulty, isClickable, timeouts, stale, scheduled>>
    /\ lastOp' = "changeDifficulty"

\* line 202, the difficulty select of the start screen
setDifficulty(d) ==
    /\ ~gameStarted
    /\ d # difficulty
    /\ difficulty' = d
    /\ UNCHANGED <<cards, flippedCards, stats, gameStarted, isClickable, timeouts, stale, scheduled>>
    /\ lastOp' = "setDifficulty"

(***************************************************************************)
(* A click on a card (GameCard.handleClick, lines 22-26, which calls       *)
(* handleCardClick, lines 107-150).                                        *)
(***************************************************************************)
\* A GameCard that forwards clicks on face-up cards.
CanClickFaceUp(card) == isClickable /\ ~card.isMatched

\* line 23: the condition under which GameCard forwards the click
CanClick(card) == isClickable /\ ~card.isFlipped /\ ~card.isMatched

\* A click path without the lock that holds while two cards are selected.
ClickAcceptedNoLock(cardId) ==
    /\ ~Find(cards, cardId).isFlipped
    /\ ~Find(cards, cardId).isMatched

\* lines 23 and 108: the click reaches the body of handleCardClick
ClickAccepted(cardId) ==
    /\ CanClick(Find(cards, cardId))
    /\ ~(Len(flippedCards) = 2)

\* lines 110-112
CardsAfterClick(cardId) ==
    [i \in DOMAIN cards |-> IF cards[i].id = cardId THEN FlipCard(cards[i]) ELSE cards[i]]

\* A move counter that counts every accepted click.
StatsAfterClickEach(newFlippedCards) == [stats EXCEPT !.moves = @ + 1]

\* lines 117-119: the move counter after a click that made newFlippedCards
StatsAfterClick(newFlippedCards) ==
    IF Len(newFlippedCards) = 2
    THEN [stats EXCEPT !.moves = @ + 1]
    ELSE stats

\* The set of elements of an array.
Elems(s) == {s[i] : i \in DOMAIN s}

\* lines 121-148: the commit the click schedules.  The callback reads the
\* newFlippedCards it closes over only through includes(), so the timeout
\* keeps the set of its ids.
ScheduledCommit(newFlippedCards) ==
    LET firstCard == Find(cards, newFlippedCards[1])
        secondCard == Find(cards, newFlippedCards[2])
    IN  IF firstCard.emoji = secondCard.emoji
        THEN [kind |-> "match", ids |-> Elems(newFlippedCards), delay |-> MATCH_DELAY]
        ELSE [kind |-> "mismatch", ids |-> Elems(newFlippedCards), delay |-> MISMATCH_DELAY]

\* lines 108-149
handleCardClick(cardId) ==
    LET newFlippedCards == Append(flippedCards, cardId)
        newCards == CardsAfterClick(cardId)
    IN  /\ cards' = newCards
        /\ flippedCards' = newFlippedCards
        /\ stats' = CompletionEffect(newCards, StatsAfterClick(newFlippedCards))
        /\ IF Len(newFlippedCards) = 2
           THEN /\ isClickable' = FALSE
                /\ timeouts' = Append(timeouts, ScheduledCommit(newFlippedCards))
                /\ scheduled' = scheduled + 1
           ELSE UNCHANGED <<isClickable, timeouts, scheduled>>

\* The lowest id of a card that is not matched, scanning from position i
\* (the deck length when all are matched).
RECURSIVE FirstUnmatchedFrom(_)
FirstUnmatchedFrom(i) ==
    IF i > Len(cards) THEN Len(cards)
    ELSE IF ~cards[i].isMatched THEN cards[i].id
    ELSE FirstUnmatchedFrom(i + 1)

\* The cards the player clicks: those up to ClickWindow past the first unmatched one.
ClickIds == 0..(Min(Len(cards), FirstUnmatchedFrom(1) + ClickWindow) - 1)

\* The game grid is rendered only while gameStarted (lines 188, 269-276).
GameCardClick(cardId, maxCommits) ==
    /\ gameStarted
    /\ cardId \in ClickIds
    /\ IF ClickAccepted(cardId)
       THEN /\ Len(flippedCards) = 1 => scheduled < maxCommits
            /\ handleCardClick(cardId)
            /\ lastOp' = "select"
       ELSE /\ UNCHANGED <<cards, flippedCards, stats, isClickable, timeouts, scheduled>>
            /\ lastOp' = "reject"
    /\ UNCHANGED <<difficulty, gameStarted, stale>>

(***************************************************************************)
(* A setTimeout callback fires (lines 127-136 and 139-147).  Timers with   *)
(* the same delay fire in scheduling order, and a timer scheduled earlier  *)
(* with a shorter delay fires first; a match commit (600 ms) may overtake  *)
(* a mismatch commit (1200 ms) scheduled less than 600 ms before it.       *)
(***************************************************************************)
CanFire(i) == \A j \in 1..(i - 1) : timeouts[j].delay > timeouts[i].delay

RemoveAt(s, i) == SubSeq(s, 1, i - 1) \o SubSeq(s, i + 1, Len(s))

\* lines 128-132
CardsAfterMatch(ids) ==
    [i \in DOMAIN cards |-> IF cards[i].id \in ids THEN MarkMatched(cards[i]) ELSE cards[i]]

\* lines 140-144
CardsAfterMismatch(ids) ==
    [i \in DOMAIN cards |-> IF cards[i].id \in ids THEN FlipBack(cards[i]) ELSE cards[i]]

\* line 133
StatsAfterMatch == [stats EXCEPT !.matches = @ + 1]

\* lines 127-136
matchCommit(newFlippedCards) ==
    /\ cards' = CardsAfterMatch(newFlippedCards)
    /\ stats' = CompletionEffect(CardsAfterMatch(newFlippedCards), StatsAfterMatch)
    /\ flippedCards' = << >>
    /\ isClickable' = TRUE

\* A mismatch commit without its setIsClickable(true).
mismatchCommitKeepingLock(newFlippedCards) ==
    /\ cards' = CardsAfterMismatch(newFlippedCards)
    /\ stats' = CompletionEffect(CardsAfterMismatch(newFlippedCards), stats)
    /\ flippedCards' = << >>
    /\ UNCHANGED isClickable

\* lines 139-147
mismatchCommit(newFlippedCards) ==
    /\ cards' = CardsAfterMismatch(newFlippedCards)
    /\ stats' = CompletionEffect(CardsAfterMismatch(newFlippedCards), stats)
    /\ flippedCards' = << >>
    /\ isClickable' = TRUE

Commit(i) ==
    /\ i \in DOMAIN timeouts
    /\ CanFire(i)
    /\ IF timeouts[i].kind = "match"
       THEN matchCommit(timeouts[i].ids)
       ELSE mismatchCommit(timeouts[i].ids)
    /\ timeouts' = RemoveAt(timeouts, i)
    /\ stale' = IF i <= stale THEN stale - 1 ELSE stale
    /\ UNCHANGED <<difficulty, gameStarted, scheduled>>
    /\ lastOp' = "commit"

(***************************************************************************)
(* The setInterval callback (lines 162-170).  The effect installs the      *)
(* interval only while gameStarted and not isGameComplete and clears it    *)
(* when either changes.                                                    *)
(***************************************************************************)
\* A timer effect that does not look at isGameComplete.
TimerRunningWhileStarted == gameStarted

\* line 163
TimerRunning == gameStarted /\ ~stats.isGameComplete

Tick ==
    /\ TimerRunning
    /\ stats.timeElapsed < MaxTime
    /\ stats' = [stats EXCEPT !.timeElapsed = @ + 1]
    /\ UNCHANGED <<cards, flippedCards, difficulty, gameStarted, isClickable, timeouts, stale, scheduled>>
    /\ lastOp' = "tick"

(***************************************************************************)
(* Resets at any moment: the player starts easy games, clicks cards and    *)
(* presses Reset Game or Change Difficulty in any state, with commits      *)
(* pending or not.                                                         *)
(***************************************************************************)
Next ==
    \/ startGame
    \/ resetGame
    \/ changeDifficulty
    \/ \E cardId \in ClickIds : GameCardClick(cardId, MaxCommits)
    \/ \E i \in DOMAIN timeouts : Commit(i)

Spec == Init /\ [][Next]_vars

(***************************************************************************)
(* Play to completion: the player picks a difficulty, starts, plays with   *)
(* the clock running and presses Reset Game or Change Difficulty only on   *)
(* the completion banner (lines 251-258).                                  *)
(***************************************************************************)
PlayAgain == stats.isGameComplete /\ resetGame

BackToMenu == stats.isGameComplete /\ changeDifficulty

NextRun ==
    \/ startGame
    \/ PlayAgain
    \/ BackToMenu
    \/ \E d \in Difficulty : setDifficulty(d)
    \/ \E cardId \in ClickIds : GameCardClick(cardId, MaxCommitsRun)
    \/ \E i \in DOMAIN timeouts : Commit(i)
    \/ Tick

SpecRun == Init /\ [][NextRun]_vars

(***************************************************************************)
(* The largest deck played to completion: the player picks a difficulty,   *)
(* starts and plays until every card is matched, without resetting.        *)
(***************************************************************************)
NextHard ==
    \/ startGame
    \/ \E d \in Difficulty : setDifficulty(d)
    \/ \E cardId \in ClickIds : GameCardClick(cardId, MaxCommitsHard)
    \/ \E i \in DOMAIN timeouts : Commit(i)

SpecHard == Init /\ [][NextHard]_vars

(***************************************************************************)
(* A scheduled setTimeout callback is eventually run by the event loop.    *)
(***************************************************************************)
SpecFair == Spec /\ WF_vars(\E i \in DOMAIN timeouts : Commit(i))

(***************************************************************************)
(* Properties.                                                             *)
(***************************************************************************)
SessionVars == <<cards, flippedCards, stats, isClickable>>

FaceUpUnmatched == {i \in DOMAIN cards : cards[i].isFlipped /\ ~cards[i].isMatched}

AllMatched == Len(cards) > 0 /\ \A i \in DOMAIN cards : cards[i].isMatched

GridSize == DIFFICULTY_CONFIG[difficulty].gridSize

\* C1: a commit that was scheduled before the latest reset/start is cancelled:
\* when it fires it changes no card, no counter, not the selection set and not
\* the selection-accepting flag of the new session.
StaleCommitChangesNothing ==
    [][(lastOp' = "commit" /\ stale' < stale) => UNCHANGED SessionVars]_vars

\* C2: in every reachable state at most two cards are revealed and not matched,
\* and the selection set holds 0, 1 or 2 ids.
AtMostTwoFaceUp ==
    /\ Cardinality(FaceUpUnmatched) <= 2
    /\ Len(flippedCards) <= 2

\* C3: the deck of a started session has gridSize * gridSize cards
\* (16 for easy, 36 for medium, 64 for hard).
DeckHasGridSizeSquaredCards ==
    gameStarted => Len(cards) = GridSize * GridSize

\* C4: every symbol present in the deck is carried by exactly two cards.
EverySymbolOnTwoCards ==
    \A i \in DOMAIN cards :
        Cardinality({j \in DOMAIN cards : cards[j].emoji = cards[i].emoji}) = 2

\* C5: starting a session whose difficulty needs more distinct symbols than the
\* catalog holds fails: no deck is installed and the session does not become active.
SmallCatalogPreventsStart ==
    [][(lastOp' = "start" /\ Cardinality(Elems(CARD_EMOJIS)) < (GridSize * GridSize) \div 2)
          => (cards' = cards /\ ~gameStarted')]_vars

\* C6: in every state of an active session the completion flag is true if and
\* only if every card of the deck is matched.
CompletionIffAllMatched ==
    gameStarted => (stats.isGameComplete <=> AllMatched)

C6Witness ==
    gameStarted /\ stats.isGameComplete /\ AllMatched /\ lastOp = "commit"

\* C7: within a session isMatched is monotonic: no event other than a
\* reset/start turns a card's isMatched from true to false.
IsMatchedMonotonic ==
    [][lastOp' \notin {"start", "reset"} =>
          \A i \in DOMAIN cards :
              cards[i].isMatched => (i \in DOMAIN cards' /\ cards'[i].isMatched)]_vars

\* a card is matched and a card was selected after it became so
C7Witness ==
    /\ lastOp = "select"
    /\ \E i \in DOMAIN cards : cards[i].isMatched

\* C8: a click made while two cards are selected changes nothing: cards,
\* selection set, counters, elapsed time, completion flag.
ThirdSelectionIsNoOp ==
    [][(lastOp' \in {"select", "reject"} /\ Len(flippedCards) = 2) => UNCHANGED gameVars]_vars

C8Witness ==
    lastOp = "reject" /\ Len(flippedCards) = 2 /\ Cardinality(FaceUpUnmatched) = 2

\* C9: in any turn state a click on a card that is already revealed or already
\* matched changes nothing (no self-pair, no move counted).
FaceUpOrMatchedClickIsNoOp ==
    [][\A cardId \in ClickIds :
          (/\ Find(cards, cardId).isFlipped \/ Find(cards, cardId).isMatched
           /\ GameCardClick(cardId, MaxCommits))
          => UNCHANGED gameVars]_vars

\* a click was rejected although selections were being accepted: its card
\* was face up or matched
C9Witness ==
    lastOp = "reject" /\ isClickable /\ Len(flippedCards) = 1

\* C10: the move counter goes up by exactly 1 when a click makes the second
\* card of a pair selected, and no other click, commit or tick changes it.
MovesCountSecondCards ==
    [][lastOp' \notin {"start", "reset"} =>
          IF lastOp' = "select" /\ Len(flippedCards) = 1
          THEN stats'.moves = stats.moves + 1
          ELSE stats'.moves = stats.moves]_vars

C10Witness ==
    lastOp = "select" /\ Len(flippedCards) = 2 /\ stats.moves = 2 /\ stats.timeElapsed = 1

\* The commit at position i of the queue was scheduled in the current session.
ScheduledInCurrentSession(i) == i \in DOMAIN timeouts /\ i > stale

\* C11: the match counter goes up by exactly 1 when a match commit of a pair
\* selected in the current session fires, and no other click or commit changes it.
MatchesCountCurrentPairs ==
    [][lastOp' \notin {"start", "reset"} =>
          IF \E i \in DOMAIN timeouts :
                 /\ ScheduledInCurrentSession(i)
                 /\ timeouts[i].kind = "match"
                 /\ Commit(i)
          THEN stats'.matches = stats.matches + 1
          ELSE stats'.matches = stats.matches]_vars

\* C12: once the completion flag is true, and while no session is active, the
\* elapsed-time counter does not change until the next reset/start.
ClockStopsWhenComplete ==
    [][((stats.isGameComplete \/ ~gameStarted) /\ lastOp' \notin {"start", "reset"})
          => stats'.timeElapsed = stats.timeElapsed]_vars

\* a completed game whose clock had advanced, after the player left the
\* completion banner for the menu
C12Witness ==
    /\ stats.isGameComplete
    /\ stats.timeElapsed = 1
    /\ lastOp = "changeDifficulty"

\* C13: right after a reset or a start the counters and the elapsed time are 0,
\* the completion flag is false, the selection set is empty, selections are
\* accepted and every card of the new deck is face down and unmatched.
FreshSessionAfterReset ==
    lastOp \in {"start", "reset"} =>
        /\ gameStarted
        /\ stats = ZeroStats
        /\ flippedCards = << >>
        /\ isClickable
        /\ Len(cards) > 0
        /\ \A i \in DOMAIN cards : ~cards[i].isFlipped /\ ~cards[i].isMatched

\* a reset pressed mid-game, with a commit of the old session still pending
C13Witness ==
    lastOp = "reset" /\ stale > 0

\* C14: whenever the completion flag is true, the match counter equals the
\* number of pairs of the chosen grid (gridSize * gridSize / 2) and the move
\* counter is at least that number.
CompleteMeansAllPairsCounted ==
    (gameStarted /\ stats.isGameComplete) =>
        /\ stats.matches = (GridSize * GridSize) \div 2
        /\ stats.moves >= (GridSize * GridSize) \div 2

\* C15: once a card is matched its face never changes again in the session: no
\* click and no commit turns a matched card face down.
MatchedCardKeepsFace ==
    [][lastOp' \notin {"start", "reset"} =>
          \A i \in DOMAIN cards :
              cards[i].isMatched => cards'[i].isFlipped = cards[i].isFlipped]_vars

\* The commit of the given kind that a second selection of the current session
\* scheduled, at position i of the queue, fires.
CurrentCommitFires(i, kind) ==
    /\ ScheduledInCurrentSession(i)
    /\ timeouts[i].kind = kind
    /\ Commit(i)

\* C16: the match commit of the two selected same-symbol cards sets isMatched on
\* exactly those two cards and leaves both face up, empties the selection set and
\* re-enables selection; no other card's isFlipped or isMatched changes and the
\* move counter is unchanged.
MatchCommitEffect ==
    [][\A i \in DOMAIN timeouts :
          CurrentCommitFires(i, "match") =>
              /\ \A c \in DOMAIN cards :
                    IF cards[c].id \in timeouts[i].ids
                    THEN cards'[c].isMatched /\ cards'[c].isFlipped
                    ELSE /\ cards'[c].isMatched = cards[c].isMatched
                         /\ cards'[c].isFlipped = cards[c].isFlipped
              /\ flippedCards' = << >>
              /\ isClickable'
              /\ stats'.moves = stats.moves]_vars

\* C17: the mismatch commit of the two selected different-symbol cards turns
\* exactly those two cards face down and leaves them unmatched, empties the
\* selection set and re-enables selection; no other card changes and neither the
\* move counter nor the match counter is changed.
MismatchCommitEffect ==
    [][\A i \in DOMAIN timeouts :
          CurrentCommitFires(i, "mismatch") =>
              /\ \A c \in DOMAIN cards :
                    IF cards[c].id \in timeouts[i].ids
                    THEN ~cards'[c].isFlipped /\ ~cards'[c].isMatched
                    ELSE cards'[c] = cards[c]
              /\ flippedCards' = << >>
              /\ isClickable'
              /\ stats'.moves = stats.moves
              /\ stats'.matches = stats.matches]_vars

\* Two cards are selected and selection is disabled.
Resolving == Len(flippedCards) = 2 /\ ~isClickable

\* The selection set is empty and selections are accepted.
Idle == flippedCards = << >> /\ isClickable

\* The commit of the currently selected pair, scheduled in the current session,
\* is still pending.
CommitOfSelectedPairPending ==
    \E i \in DOMAIN timeouts :
        /\ ScheduledInCurrentSession(i)
        /\ Len(flippedCards) = 2
        /\ timeouts[i].ids = Elems(flippedCards)

\* C18: with scheduled commits eventually firing, every Resolving state is
\* followed by a state with an empty selection set that accepts selections; and
\* selections are never accepted while the commit of the currently selected
\* pair, scheduled in the current session, is pending.
ResolvingLeadsToIdle ==
    /\ Resolving ~> Idle
    /\ [](CommitOfSelectedPairPending => ~isClickable)

\* the commit of a second selected pair has fired and left the game idle, with
\* a pair matched
C18Witness ==
    /\ lastOp = "commit"
    /\ Idle
    /\ timeouts = << >>
    /\ scheduled = 2
    /\ \E i \in DOMAIN cards : cards[i].isMatched

\* C19: every card that is face up and not matched is in the selection set.
FaceUpCardsAreSelected ==
    \A i \in FaceUpUnmatched : cards[i].id \in Elems(flippedCards)

\* The matched cards of the deck.
Matched == {i \in DOMAIN cards : cards[i].isMatched}

\* C20: every matched card has a distinct matched card with the same symbol, the
\* number of matched cards is twice the match counter, and the match counter
\* never exceeds the move counter.
MatchedPairsAgreeWithCounters ==
    /\ \A i \in Matched : \E j \in Matched : j # i /\ cards[j].emoji = cards[i].emoji
    /\ Cardinality(Matched) = 2 * stats.matches
    /\ stats.matches <= stats.moves

====
